---- MODULE Spec2Model ----
(***************************************************************************)
(* Model of src/src/components/dashboards/SupervisorDashboard.tsx: the      *)
(* session manager (AuthProvider, lines 255-389) and the listeners of the   *)
(* dashboard that filter what a session sees (lines 21-61).                 *)
(*                                                                         *)
(* JavaScript values are modelled as follows.  An object is a record whose *)
(* domain is the set of its own properties; every property value is a      *)
(* string ("true"/"false" for booleans, "undefined" for a property that is  *)
(* present with the value undefined).  JS null is the record `null`.  A     *)
(* string held by localStorage is a record [kind, pairs]: kind names the    *)
(* lexical class of the text and, for the text of a JSON object, pairs is   *)
(* the sequence of its "key":value members in the order they are written.   *)
(***************************************************************************)
EXTENDS Integers, Sequences, FiniteSets, TLC

VARIABLES
    db,         \* the remote store dbGet reads: users/admin, teachers, students
    user,       \* useState<User | null>(null), line 281
    isLoading,  \* useState(true), line 282
    slot,       \* the localStorage item 'crescentUser'
    phase,      \* "mounting": the mount effect has not run; "ready": it has;
                \* "crashed": it threw and the provider was torn down
    calls,      \* the login calls waiting on an awaited dbGet: which read
                \* (pc) and the arguments of the call
    held,       \* the `user` closed over by the updateUser callback the caller
                \* holds: the state of the render it was handed out by
    last,       \* observation: the last operation and what it returned
    mounted,    \* SupervisorDashboard is in the tree and its effect has run
    listeners,  \* the live dbListen subscriptions (`unsubs`, line 38): the
                \* collection of each and the user?.assignedClassIds its
                \* callback closes over
    teachers,   \* useState<Teacher[]>([]), line 23
    classes,    \* useState<Class[]>([]), line 24
    students,   \* useState<Student[]>([]), line 25
    announcements,  \* useState<Announcement[]>([]), line 26
    seen        \* observation: the last snapshot a listener was called with

\* the state of the dashboard
dashboard ==
    <<mounted, listeners, teachers, classes, students, announcements, seen>>

vars == <<db, user, isLoading, slot, phase, calls, held, last,
          mounted, listeners, teachers, classes, students, announcements, seen>>

----------------------------------------------------------------------------
(* Bounds *)

\* largest number of records in the teacher and in the student collection
MaxRecs == 2
\* largest number of login calls pending on a credential read at one time
MaxPending == 1

----------------------------------------------------------------------------
(* JavaScript values *)

null == [null |-> "null"]
undefined == "undefined"

\* o.f for an object o: undefined when o has no own property f
Get(o, f) == IF f \in DOMAIN o THEN o[f] ELSE undefined

\* truthiness of a property value read from a record of the store
Truthy(v) == v \notin {undefined, "false", "", "null"}

\* a || b on property values
OrElse(a, b) == IF Truthy(a) THEN a ELSE b

----------------------------------------------------------------------------
(* The remote store: users/admin, teachers, students *)

Usernames == {"u1", "u2"}
Passwords == {"p1", "p2"}

KeyNames == <<"k1", "k2", "k3", "k4">>

\* Every record carries the username "u1", with one of the two passwords:
\* "u2" is a username no record carries.
AdminRecords ==
    { [id |-> "admin", username |-> "u1", password |-> "p1", name |-> "Admin"] }

\* a child of teachers: a record, or a hole (null) as a sparse list yields
TeacherValues ==
    { [username |-> "u1", password |-> p, name |-> "Tea", subject |-> "math"] :
        p \in Passwords } \cup {null}

\* a child of students: a full record, a record without className that has
\* changed its password, or a hole
StudentValues ==
    { [username |-> "u1", password |-> "p1", name |-> "Stu",
       classId |-> "c1", className |-> "Class 1"],
      [username |-> "u1", password |-> "p2", name |-> "Dent",
       classId |-> "c2", passwordChanged |-> "true"],
      null }

\* what dbGet returns for a collection: the keyed mapping as the sequence of
\* [key, value] pairs Object.entries enumerates; NoData stands for the null
\* dbGet returns when the path holds nothing
NoData == <<>>

Collections(values) ==
    {NoData} \cup
    UNION { { [i \in 1..n |-> <<KeyNames[i], f[i]>>] : f \in [1..n -> values] } :
            n \in 1..MaxRecs }

Stores ==
    [admin : AdminRecords \cup {null},
     teachers : Collections(TeacherValues),
     students : Collections(StudentValues)]

----------------------------------------------------------------------------
(* localStorage: the slot 'crescentUser' *)

Fields == <<"id", "username", "name", "role", "classId", "className",
            "passwordChanged", "assignedClassIds", "theme">>

absent == [kind |-> "absent", pairs |-> <<>>]

\* a serializer that leaves out every falsy member, not only the undefined
JSONstringifyTruthy(o) ==
    LET present(f) == f \in DOMAIN o /\ o[f] \notin {undefined, "false", ""}
        keys == SelectSeq(Fields, present)
    IN  [kind |-> "object",
         pairs |-> [i \in 1..Len(keys) |-> <<keys[i], o[keys[i]]>>]]

\* JSON.stringify of an object: its members whose value is not undefined
JSONstringify(o) ==
    LET present(f) == f \in DOMAIN o /\ o[f] # undefined
        keys == SelectSeq(Fields, present)
    IN  [kind |-> "object",
         pairs |-> [i \in 1..Len(keys) |-> <<keys[i], o[keys[i]]>>]]

SyntaxError == [error |-> "SyntaxError"]

\* JSON.parse of a text
JSONparse(text) ==
    CASE text.kind = "object" ->
            LET keys == { text.pairs[i][1] : i \in 1..Len(text.pairs) }
                val(k) == LET i == CHOOSE j \in 1..Len(text.pairs) :
                                      /\ text.pairs[j][1] = k
                                      /\ \A m \in (j+1)..Len(text.pairs) :
                                            text.pairs[m][1] # k
                          IN  text.pairs[i][2]
            IN  [k \in keys |-> val(k)]
      [] text.kind = "null" -> null
      [] OTHER -> SyntaxError

----------------------------------------------------------------------------
(* Values login returns and records of the last operation *)

Success == "success"
InvalidCredentials == "Invalid username or password"
TransientFailure == "Login failed. Please try again."
\* the operation ended by an exception that reached its caller
Threw == "threw"
\* the operation returned normally and returns no value
Void == "void"

\* observation of the operation that made the last step: its name, what it
\* returned, the credentials it was called with (login) and the fault it met
\* ("read": a dbGet was rejected, "record": a property of a null record was
\* read, "storage": setItem threw), "none" otherwise
Last(op, result, username, password, fault) ==
    [op |-> op, result |-> result, username |-> username, password |-> password,
     fault |-> fault]

\* an operation other than login that met no fault
Did(op, result) == Last(op, result, "", "", "none")

NoCall == [pc |-> "idle", username |-> "", password |-> ""]

----------------------------------------------------------------------------
(* SupervisorDashboard: the scope filters of its listeners (lines 37-61) *)

\* The value of assignedClassIds is an array of class ids, written as the
\* text of the array; AssignedIds gives its elements.
AssignedIds(ids) ==
    CASE ids = "[c1]" -> {"c1"}
      [] ids = "[c2]" -> {"c2"}
      [] ids = "[c1,c2]" -> {"c1", "c2"}
      [] OTHER -> {}

\* user?.assignedClassIds: undefined without a session or without the field
AssignedClassIds(session) ==
    IF session = null THEN undefined ELSE Get(session, "assignedClassIds")

\* user?.assignedClassIds?.includes(v), as the filter reads it: undefined,
\* which is falsy, when there is no array
Includes(ids, v) == ids # undefined /\ v \in AssignedIds(ids)

\* ({ id, ...c }): the key, then the record's own properties over it
WithId(entry) ==
    IF entry[2] = null THEN [id |-> entry[1]]
    ELSE [f \in {"id"} \cup DOMAIN entry[2] |->
             IF f \in DOMAIN entry[2] THEN entry[2][f] ELSE entry[1]]

\* data ? Object.entries(data).map(([id, c]) => ({ id, ...c })) : []
Entries(data) == [i \in 1..Len(data) |-> WithId(data[i])]

\* lines 41-43
FilteredClasses(data, ids) ==
    LET assigned(c) == Includes(ids, c.id)
    IN  SelectSeq(Entries(data), assigned)

\* a students filter that looks the student's own id up in the scope
FilteredStudentsById(data, ids) ==
    LET assigned(s) == Includes(ids, s.id)
    IN  SelectSeq(Entries(data), assigned)

\* lines 47-49
FilteredStudents(data, ids) ==
    LET assigned(s) == Includes(ids, Get(s, "classId"))
    IN  SelectSeq(Entries(data), assigned)

\* an announcements filter without the clause for general announcements
VisibleAssignedOnly(a, ids) == Includes(ids, Get(a, "classId"))

\* !a.classId || user?.assignedClassIds?.includes(a.classId) (line 55)
Visible(a, ids) ==
    \/ ~Truthy(Get(a, "classId"))
    \/ Includes(ids, Get(a, "classId"))

\* new Date(createdAt).getTime(), in days from 2024-01-01: a date-only text
\* is the midnight (UTC) the full text of the same day writes out
GetTime(createdAt) ==
    CASE createdAt \in {"2024-01-01", "2024-01-01T00:00:00.000Z"} -> 0
      [] createdAt = "2024-02-01" -> 31
      [] createdAt = "2024-03-01" -> 60

\* a comparator that puts the oldest first
CompareAscending(a, b) == GetTime(a.createdAt) - GetTime(b.createdAt)

\* (a, b) => new Date(b.createdAt).getTime() - new Date(a.createdAt).getTime()
Compare(a, b) == GetTime(b.createdAt) - GetTime(a.createdAt)

\* x put into the sorted s behind every element that does not sort after it
Insert(s, x) ==
    LET after == { i \in 1..Len(s) : Compare(s[i], x) > 0 }
        p == IF after = {} THEN Len(s) + 1
             ELSE CHOOSE i \in after : \A j \in after : i <= j
    IN  SubSeq(s, 1, p - 1) \o <<x>> \o SubSeq(s, p, Len(s))

\* Array.prototype.sort with Compare: the sort is stable
RECURSIVE Sort(_)
Sort(s) ==
    IF s = <<>> THEN <<>>
    ELSE Insert(Sort(SubSeq(s, 1, Len(s) - 1)), s[Len(s)])

\* lines 53-56
FilteredAnnouncements(data, ids) ==
    LET visible(a) == Visible(a, ids)
    IN  Sort(SelectSeq(Entries(data), visible))

\* the four collections the effect listens to, in the order of `unsubs`
Listened == <<"teachers", "classes", "students", "announcements">>

\* the subscriptions one run of the effect opens; each callback closes over
\* the `user` of the render the effect belongs to
Subscribe(session) ==
    [i \in 1..Len(Listened) |->
        [collection |-> Listened[i], ids |-> AssignedClassIds(session)]]

\* observation of the last snapshot delivered: the collection, the data and
\* the assignedClassIds of the session at the time
Seen(collection, data, ids) ==
    [collection |-> collection, data |-> data, ids |-> ids]

NothingSeen == Seen("none", <<>>, undefined)

\* a re-render that never runs the effect again
CommitKeepsListeners(session) ==
    UNCHANGED <<mounted, listeners, teachers, classes, students,
                announcements, seen>>

\* setUser(session) re-renders the components below the provider: when the
\* dashboard is mounted and the dependency user?.assignedClassIds differs
\* from the one of the last run, the cleanup of the effect releases the
\* subscriptions and the effect opens them anew (lines 38-61).  A new array
\* of the same content also re-runs the effect, to the same subscriptions.
Commit(session) ==
    /\ listeners' =
          IF mounted /\ \E i \in DOMAIN listeners :
                            listeners[i].ids # AssignedClassIds(session)
          THEN Subscribe(session)
          ELSE listeners
    /\ UNCHANGED <<mounted, teachers, classes, students, announcements, seen>>

----------------------------------------------------------------------------
(* login: the code between its awaits *)

\* letter case folded and surrounding whitespace trimmed
Fold(text) ==
    CASE text \in {"U1", " u1"} -> "u1"
      [] text \in {"P1", "p1 "} -> "p1"
      [] OTHER -> text

\* Matches comparing after folding case and trimming whitespace
MatchesFolded(record, username, password) ==
    /\ Fold(Get(record, "username")) = Fold(username)
    /\ Fold(Get(record, "password")) = Fold(password)

\* Matches with the password comparison left out
MatchesUsernameOnly(record, username, password) ==
    Get(record, "username") = username

\* adminData.username === username && adminData.password === password
Matches(record, username, password) ==
    /\ Get(record, "username") = username
    /\ Get(record, "password") = password

\* AdminMatches reading a property the admin record does not have
AdminMatchesWrongProperty(adminData, username, password) ==
    /\ adminData # null
    /\ Get(adminData, "user") = username
    /\ Get(adminData, "password") = password

\* adminData && ... (line 300)
AdminMatches(adminData, username, password) ==
    /\ adminData # null
    /\ Matches(adminData, username, password)

\* userData of the admin path (lines 301-306)
AdminUser(adminData) ==
    [id |-> Get(adminData, "id"), username |-> Get(adminData, "username"),
     name |-> Get(adminData, "name"), role |-> "admin"]

\* TeacherUser taking the id from the record, as the admin path does
TeacherUserRecordId(key, teacher) ==
    [id |-> Get(teacher, "id"), username |-> Get(teacher, "username"),
     name |-> Get(teacher, "name"), role |-> "teacher"]

\* userData of the teacher path (lines 317-322)
TeacherUser(key, teacher) ==
    [id |-> key, username |-> Get(teacher, "username"),
     name |-> Get(teacher, "name"), role |-> "teacher"]

\* userData of the student path (lines 341-349)
StudentUser(key, student) ==
    [id |-> key, username |-> Get(student, "username"),
     name |-> Get(student, "name"), role |-> "student",
     classId |-> Get(student, "classId"),
     className |-> Get(student, "className"),
     passwordChanged |-> OrElse(Get(student, "passwordChanged"), "false")]

\* the for loop over Object.entries(collection) from entry i on: the index
\* of the first entry that matches, 0 when the loop ends without a match,
\* -1 when reading a property of a null entry throws a TypeError
RECURSIVE Scan(_, _, _, _)
Scan(entries, i, username, password) ==
    IF i > Len(entries) THEN 0
    ELSE IF entries[i][2] = null THEN -1
    ELSE IF Matches(entries[i][2], username, password) THEN i
    ELSE Scan(entries, i + 1, username, password)

\* if (collection) { for ... } (lines 314-328, 332-355)
ScanCollection(collection, username, password) ==
    IF collection = NoData THEN 0 ELSE Scan(collection, 1, username, password)

\* a catch block that throws the fault on to the caller
CaughtRethrown == Threw

\* the catch block (lines 358-361): the value returned for a caught fault
Caught == TransientFailure

\* login returns `result` from call c
Return(c, result, fault) ==
    /\ calls' = [calls EXCEPT ![c] = NoCall]
    /\ last' = Last("login", result, calls[c].username, calls[c].password, fault)

\* setUser(userData); localStorage.setItem(...); return { success: true }
\* setItem throws when the quota is exceeded: the catch block returns
Install(c, userData) ==
    /\ user' = userData
    /\ \E quotaExceeded \in BOOLEAN :
         IF quotaExceeded
         THEN slot' = slot /\ Return(c, Caught, "storage")
         ELSE slot' = JSONstringify(userData) /\ Return(c, Success, "none")

\* the call: up to the first await, dbGet('users/admin')
Login(username, password) ==
    /\ phase = "ready"
    /\ \E c \in DOMAIN calls :
         /\ calls[c].pc = "idle"
         /\ \A b \in 1..(c-1) : calls[b].pc # "idle"
         /\ calls' = [calls EXCEPT ![c] =
                         [pc |-> "admin", username |-> username,
                          password |-> password]]
    /\ UNCHANGED <<db, user, isLoading, slot, phase, held, last>>
    /\ UNCHANGED dashboard

\* dbGet('users/admin') settles: lines 299-313
LoginAdmin(c) ==
    /\ calls[c].pc = "admin"
    /\ \E rejected \in BOOLEAN :
         IF rejected
         THEN Return(c, Caught, "read") /\ UNCHANGED <<user, slot>>
         ELSE LET adminData == db.admin
              IN  IF AdminMatches(adminData, calls[c].username, calls[c].password)
                  THEN Install(c, AdminUser(adminData))
                  ELSE /\ calls' = [calls EXCEPT ![c].pc = "teachers"]
                       /\ UNCHANGED <<user, slot, last>>
    /\ UNCHANGED <<db, isLoading, phase, held>>
    /\ Commit(user')

\* dbGet('teachers') settles: lines 313-331
LoginTeachers(c) ==
    /\ calls[c].pc = "teachers"
    /\ \E rejected \in BOOLEAN :
         IF rejected
         THEN Return(c, Caught, "read") /\ UNCHANGED <<user, slot>>
         ELSE LET teachersData == db.teachers
                  i == ScanCollection(teachersData, calls[c].username, calls[c].password)
              IN  CASE i = -1 -> Return(c, Caught, "record") /\ UNCHANGED <<user, slot>>
                    [] i = 0 -> /\ calls' = [calls EXCEPT ![c].pc = "students"]
                                /\ UNCHANGED <<user, slot, last>>
                    [] OTHER -> Install(c, TeacherUser(teachersData[i][1], teachersData[i][2]))
    /\ UNCHANGED <<db, isLoading, phase, held>>
    /\ Commit(user')

\* dbGet('students') settles: lines 331-357
LoginStudents(c) ==
    /\ calls[c].pc = "students"
    /\ \E rejected \in BOOLEAN :
         IF rejected
         THEN Return(c, Caught, "read") /\ UNCHANGED <<user, slot>>
         ELSE LET studentsData == db.students
                  i == ScanCollection(studentsData, calls[c].username, calls[c].password)
              IN  CASE i = -1 -> Return(c, Caught, "record") /\ UNCHANGED <<user, slot>>
                    [] i = 0 -> Return(c, InvalidCredentials, "none") /\ UNCHANGED <<user, slot>>
                    [] OTHER -> Install(c, StudentUser(studentsData[i][1], studentsData[i][2]))
    /\ UNCHANGED <<db, isLoading, phase, held>>
    /\ Commit(user')

----------------------------------------------------------------------------
(* restoreSession: the mount effect of AuthProvider (lines 284-291) *)

\* if (savedUser): getItem gives null for an absent slot, '' is falsy
SavedUserTruthy(text) == text.kind \notin {"absent", "empty"}

RestoreSession ==
    /\ phase = "mounting"
    /\ IF SavedUserTruthy(slot)
       THEN LET parsed == JSONparse(slot)
            IN  IF parsed = SyntaxError
                THEN \* JSON.parse throws out of the effect: setIsLoading(false)
                     \* is not reached and the provider is torn down
                     /\ phase' = "crashed"
                     /\ last' = Did("restoreSession", Threw)
                     /\ UNCHANGED <<user, isLoading>>
                ELSE /\ user' = parsed
                     /\ isLoading' = FALSE
                     /\ phase' = "ready"
                     /\ last' = Did("restoreSession", Void)
       ELSE /\ isLoading' = FALSE
            /\ phase' = "ready"
            /\ last' = Did("restoreSession", Void)
            /\ UNCHANGED user
    /\ UNCHANGED <<db, slot, calls, held>>
    /\ Commit(user')

----------------------------------------------------------------------------
(* logout (lines 364-367) *)

\* a logout that forgets localStorage.removeItem
LogoutKeepsSlot ==
    /\ phase = "ready"
    /\ user' = null
    /\ last' = Did(IF last.op \in {"logout", "logout again"}
                   THEN "logout again" ELSE "logout", Void)
    /\ UNCHANGED <<db, isLoading, slot, phase, calls, held>>
    /\ Commit(user')

Logout ==
    /\ phase = "ready"
    /\ user' = null
    /\ slot' = absent
    /\ last' = Did(IF last.op \in {"logout", "logout again"}
                   THEN "logout again" ELSE "logout", Void)
    /\ UNCHANGED <<db, isLoading, phase, calls, held>>
    /\ Commit(user')

----------------------------------------------------------------------------
(* updateUser (lines 369-375) *)

\* the Partial<User> arguments callers pass
Partials ==
    { [passwordChanged |-> "true"],
      [name |-> "Renamed", classId |-> undefined] }

\* { ...closure, ...data }
Spread(closure, data) ==
    [f \in (DOMAIN closure) \cup (DOMAIN data) |->
        IF f \in DOMAIN data THEN data[f] ELSE closure[f]]

\* A component re-renders with the provider's current value: the updateUser
\* it holds from now on is the closure over the current `user`.
Render ==
    /\ phase = "ready"
    /\ held # user
    /\ held' = user
    /\ UNCHANGED <<db, user, isLoading, slot, phase, calls, last>>
    /\ UNCHANGED dashboard

\* updateUser(data), called through the closure the caller holds: `user` in
\* its body is the state of the render that created it
UpdateUser(data) ==
    /\ phase = "ready"
    /\ IF held # null
       THEN LET updatedUser == Spread(held, data)
            IN  /\ user' = updatedUser
                /\ \E quotaExceeded \in BOOLEAN :
                     IF quotaExceeded
                     THEN /\ slot' = slot
                          /\ last' = Last("updateUser", Threw, "", "", "storage")
                     ELSE /\ slot' = JSONstringify(updatedUser)
                          /\ last' = Did("updateUser", Void)
       ELSE /\ last' = Did("updateUser", Void)
            /\ UNCHANGED <<user, slot>>
    /\ UNCHANGED <<db, isLoading, phase, calls, held>>
    /\ Commit(user')

----------------------------------------------------------------------------
(* SupervisorDashboard: mounting and the callbacks of its listeners *)

\* useState([]) of lines 23-26; the effect has not run
Unmounted ==
    /\ mounted = FALSE
    /\ listeners = <<>>
    /\ teachers = <<>> /\ classes = <<>> /\ students = <<>>
    /\ announcements = <<>>
    /\ seen = NothingSeen

\* the dashboard is rendered for the first time and its effect runs
MountDashboard ==
    /\ phase = "ready"
    /\ ~mounted
    /\ mounted' = TRUE
    /\ listeners' = Subscribe(user)
    /\ UNCHANGED <<teachers, classes, students, announcements, seen>>
    /\ UNCHANGED <<db, user, isLoading, slot, phase, calls, held, last>>

\* the dashboard leaves the tree: the cleanup of line 60 runs and the state
\* of the component is discarded
UnmountDashboard ==
    /\ mounted
    /\ mounted' = FALSE
    /\ listeners' = <<>>
    /\ teachers' = <<>> /\ classes' = <<>> /\ students' = <<>>
    /\ announcements' = <<>>
    /\ seen' = NothingSeen
    /\ UNCHANGED <<db, user, isLoading, slot, phase, calls, held, last>>

\* the callback of line 39 is called with a snapshot of teachers
DeliverTeachers(data) ==
    /\ \E i \in DOMAIN listeners : listeners[i].collection = "teachers"
    /\ teachers' = Entries(data)
    /\ seen' = Seen("teachers", data, AssignedClassIds(user))
    /\ UNCHANGED <<mounted, listeners, classes, students, announcements>>
    /\ UNCHANGED <<db, user, isLoading, slot, phase, calls, held, last>>

\* the callback of lines 40-45
DeliverClasses(data) ==
    /\ \E i \in DOMAIN listeners :
         /\ listeners[i].collection = "classes"
         /\ classes' = FilteredClasses(data, listeners[i].ids)
    /\ seen' = Seen("classes", data, AssignedClassIds(user))
    /\ UNCHANGED <<mounted, listeners, teachers, students, announcements>>
    /\ UNCHANGED <<db, user, isLoading, slot, phase, calls, held, last>>

\* the callback of lines 46-51
DeliverStudents(data) ==
    /\ \E i \in DOMAIN listeners :
         /\ listeners[i].collection = "students"
         /\ students' = FilteredStudents(data, listeners[i].ids)
    /\ seen' = Seen("students", data, AssignedClassIds(user))
    /\ UNCHANGED <<mounted, listeners, teachers, classes, announcements>>
    /\ UNCHANGED <<db, user, isLoading, slot, phase, calls, held, last>>

\* the callback of lines 52-58
DeliverAnnouncements(data) ==
    /\ \E i \in DOMAIN listeners :
         /\ listeners[i].collection = "announcements"
         /\ announcements' = FilteredAnnouncements(data, listeners[i].ids)
    /\ seen' = Seen("announcements", data, AssignedClassIds(user))
    /\ UNCHANGED <<mounted, listeners, teachers, classes, students>>
    /\ UNCHANGED <<db, user, isLoading, slot, phase, calls, held, last>>

\* snapshots of classes: up to MaxRecs of three classes, in any order
ClassKeys == {"c1", "c2", "c3"}

ClassSnapshots ==
    {NoData} \cup
    UNION { { [i \in 1..n |-> <<f[i], [name |-> "Class"]>>] :
                f \in { g \in [1..n -> ClassKeys] :
                          \A i, j \in 1..n : i # j => g[i] # g[j] } } :
            n \in 1..MaxRecs }

\* snapshots of teachers: none or one record
TeacherSnapshots ==
    { t \in Collections(TeacherValues) :
        Len(t) <= 1 /\ \A i \in 1..Len(t) : t[i][2] # null }

\* snapshots of students: the records login reads, their classId "c1",
\* "c2", or a hole
StudentSnapshots == Collections(StudentValues)

\* an announcement for every class, for a class that does not exist, a
\* general one (no classId) and one whose classId is the empty string
AnnouncementValues ==
    { [title |-> "General", createdAt |-> "2024-02-01"],
      [title |-> "Empty", createdAt |-> "2024-02-01", classId |-> ""],
      [title |-> "One", createdAt |-> "2024-01-01", classId |-> "c1"],
      [title |-> "Two", createdAt |-> "2024-03-01", classId |-> "c2"],
      [title |-> "Gone", createdAt |-> "2024-01-01", classId |-> "c9"] }

AnnouncementSnapshots ==
    {NoData} \cup
    UNION { { [i \in 1..n |-> <<KeyNames[i], f[i]>>] :
                f \in [1..n -> AnnouncementValues] } :
            n \in 1..MaxRecs }

----------------------------------------------------------------------------
(* The process *)

\* what the slot may hold when the application is first loaded
InitialSlots ==
    { absent,
      [kind |-> "empty", pairs |-> <<>>],
      [kind |-> "garbage", pairs |-> <<>>],
      [kind |-> "null", pairs |-> <<>>],
      [kind |-> "object", pairs |-> << <<"theme", "dark">> >>] }

\* useState(null), useState(true) (lines 281-282); the effect has not run
\* and no login call is pending; at most `pending` calls will be at a time
Mount(pending) ==
    /\ user = null
    /\ isLoading = TRUE
    /\ phase = "mounting"
    /\ calls = [c \in 1..pending |-> NoCall]
    /\ held = null

\* the stores with at most one teacher and one student, and no hole
SmallStores ==
    { s \in Stores :
        /\ Len(s.teachers) <= 1 /\ Len(s.students) <= 1
        /\ \A i \in 1..Len(s.teachers) : s.teachers[i][2] # null
        /\ \A i \in 1..Len(s.students) : s.students[i][2] # null }

Init ==
    /\ db \in SmallStores
    /\ slot \in InitialSlots
    /\ Mount(MaxPending)
    /\ Unmounted
    /\ last = Did("none", Void)

\* the page is reloaded: a fresh process over the same localStorage
Restart ==
    /\ phase # "mounting"
    /\ user' = null
    /\ isLoading' = TRUE
    /\ phase' = "mounting"
    /\ calls' = [c \in DOMAIN calls |-> NoCall]
    /\ held' = null
    /\ last' = Did("restart", Void)
    /\ mounted' = FALSE
    /\ listeners' = <<>>
    /\ teachers' = <<>> /\ classes' = <<>> /\ students' = <<>>
    /\ announcements' = <<>>
    /\ seen' = NothingSeen
    /\ UNCHANGED <<db, slot>>

\* The session's life: logins here use the username the records carry, with
\* the right or the wrong password (SpecLogin below tries every input pair).
Next ==
    \/ RestoreSession
    \/ \E p \in Passwords : Login("u1", p)
    \/ \E c \in DOMAIN calls : LoginAdmin(c)
    \/ \E c \in DOMAIN calls : LoginTeachers(c)
    \/ \E c \in DOMAIN calls : LoginStudents(c)
    \/ Logout
    \/ Render
    \/ \E data \in Partials : UpdateUser(data)
    \/ Restart

Spec == Init /\ [][Next]_vars

\* the application loaded for the first time: nothing is stored yet
InitFresh ==
    /\ db \in SmallStores
    /\ slot = absent
    /\ Mount(MaxPending)
    /\ Unmounted
    /\ last = Did("none", Void)

SpecFresh == InitFresh /\ [][Next]_vars

\* login against every store, from an empty slot, one call at a time
InitLogin ==
    /\ db \in Stores
    /\ slot = absent
    /\ Mount(1)
    /\ Unmounted
    /\ last = Did("none", Void)

\* the pairs login is called with: no record carries "u2", whatever the
\* password, so one password is tried with it
LoginInputs ==
    { i \in Usernames \X Passwords : i[1] = "u1" \/ i[2] = "p1" }

NextLogin ==
    \/ RestoreSession
    \/ \E i \in LoginInputs : Login(i[1], i[2])
    \/ \E c \in DOMAIN calls : LoginAdmin(c)
    \/ \E c \in DOMAIN calls : LoginTeachers(c)
    \/ \E c \in DOMAIN calls : LoginStudents(c)
    \/ Logout

SpecLogin == InitLogin /\ [][NextLogin]_vars

\* login called with the pair the records carry and with pairs that differ
\* from it by letter case or by surrounding whitespace only
ScanInputs ==
    { <<"u1", "p1">>, <<"U1", "p1">>, <<" u1", "p1">>,
      <<"u1", "P1">>, <<"u1", "p1 ">> }

NextScan ==
    \/ RestoreSession
    \/ \E i \in ScanInputs : Login(i[1], i[2])
    \/ \E c \in DOMAIN calls : LoginAdmin(c)
    \/ \E c \in DOMAIN calls : LoginTeachers(c)
    \/ \E c \in DOMAIN calls : LoginStudents(c)

SpecScan == InitLogin /\ [][NextScan]_vars

\* a session that carries assignedClassIds, as line 22 reads it from useAuth
SupervisorUser(ids) ==
    [id |-> "sup1", username |-> "u1", name |-> "Sup", role |-> "supervisor",
     assignedClassIds |-> ids]

\* the slot when the dashboard's process starts: no session, or the session
\* of a supervisor of one class or of two
DashboardSlots ==
    {absent} \cup { JSONstringify(SupervisorUser(ids)) : ids \in {"[c1]", "[c1,c2]"} }

\* the session is given another scope
DashboardPartials == { [assignedClassIds |-> "[c2]"] }

\* the snapshots of at most one record
Short(snapshots) == { data \in snapshots : Len(data) <= 1 }

InitDashboard ==
    /\ db = [admin |-> null, teachers |-> NoData, students |-> NoData]
    /\ slot \in DashboardSlots
    /\ Mount(MaxPending)
    /\ Unmounted
    /\ last = Did("none", Void)

\* the dashboard over the life of the session: every listener is called,
\* with short snapshots
NextDashboard ==
    \/ RestoreSession
    \/ Logout
    \/ Render
    \/ \E data \in DashboardPartials : UpdateUser(data)
    \/ Restart
    \/ MountDashboard
    \/ UnmountDashboard
    \/ \E data \in Short(TeacherSnapshots) : DeliverTeachers(data)
    \/ \E data \in Short(ClassSnapshots) : DeliverClasses(data)
    \/ \E data \in Short(StudentSnapshots) : DeliverStudents(data)
    \/ \E data \in Short(AnnouncementSnapshots) : DeliverAnnouncements(data)

SpecDashboard == InitDashboard /\ [][NextDashboard]_vars

\* the listeners of classes and students, called with every snapshot
NextScope ==
    \/ RestoreSession
    \/ Logout
    \/ MountDashboard
    \/ \E data \in ClassSnapshots : DeliverClasses(data)
    \/ \E data \in StudentSnapshots : DeliverStudents(data)

SpecScope == InitDashboard /\ [][NextScope]_vars

\* the listener of announcements, called with every snapshot
NextNotices ==
    \/ RestoreSession
    \/ Logout
    \/ MountDashboard
    \/ \E data \in AnnouncementSnapshots : DeliverAnnouncements(data)

SpecNotices == InitDashboard /\ [][NextNotices]_vars

\* announcements of several dates, two texts of one instant among them
DatedValues ==
    { [title |-> "Notice", createdAt |-> d] :
        d \in {"2024-01-01", "2024-01-01T00:00:00.000Z", "2024-03-01"} }
    \cup { [title |-> "One", createdAt |-> "2024-02-01", classId |-> "c1"],
           [title |-> "Two", createdAt |-> "2024-02-01", classId |-> "c2"] }

\* snapshots long enough for three dates and a tie
DatedSnapshots ==
    {NoData} \cup
    UNION { { [i \in 1..n |-> <<KeyNames[i], f[i]>>] :
                f \in [1..n -> DatedValues] } :
            n \in 1..(MaxRecs + 1) }

InitAnnouncements ==
    /\ db = [admin |-> null, teachers |-> NoData, students |-> NoData]
    /\ slot = JSONstringify(SupervisorUser("[c1]"))
    /\ Mount(MaxPending)
    /\ Unmounted
    /\ last = Did("none", Void)

\* the listener of announcements called with dated snapshots
NextAnnouncements ==
    \/ RestoreSession
    \/ MountDashboard
    \/ \E data \in DatedSnapshots : DeliverAnnouncements(data)

SpecAnnouncements == InitAnnouncements /\ [][NextAnnouncements]_vars

----------------------------------------------------------------------------
(* Claims about login *)

\* the record carries exactly this username and this password
Carries(record, username, password) ==
    /\ record # null
    /\ "username" \in DOMAIN record /\ record.username = username
    /\ "password" \in DOMAIN record /\ record.password = password

\* the keys of the records of a collection that carry the pair
Hits(collection, username, password) ==
    { i \in 1..Len(collection) : Carries(collection[i][2], username, password) }

LoginReturned == last.op = "login"
LoginSucceeded == last.op = "login" /\ last.result = Success

\* C1: login probes admin, then teachers, then students and stops at the
\* first match: when the pair is carried by records of several collections
\* the session installed is the admin one over the teacher and the student
\* one, and the teacher one over the student one.
C1_ProbeOrder ==
    LoginSucceeded =>
        LET adminHit == Carries(db.admin, last.username, last.password)
            teacherHit == Hits(db.teachers, last.username, last.password) # {}
        IN  /\ adminHit => user.role = "admin"
            /\ (~adminHit /\ teacherHit) => user.role = "teacher"
            /\ (~adminHit /\ ~teacherHit) => user.role = "student"

\* a successful login with a pair that an admin, a teacher and a student carry
C1_Witness ==
    /\ LoginSucceeded
    /\ Carries(db.admin, last.username, last.password)
    /\ Hits(db.teachers, last.username, last.password) # {}
    /\ Hits(db.students, last.username, last.password) # {}
    /\ user.role = "admin"

\* C2: a successful login installs the session of a record that carries the
\* pair exactly: its role is that of the record's collection and its id is
\* the record's key (the declared id of the admin record); and login answers
\* "invalid" only when no record of any collection carries the pair.
C2_SessionOfMatchingRecord ==
    /\ LoginSucceeded =>
          \/ /\ Carries(db.admin, last.username, last.password)
             /\ user.role = "admin"
             /\ user.id = db.admin.id
             /\ user.username = last.username
          \/ \E i \in Hits(db.teachers, last.username, last.password) :
                /\ user.role = "teacher"
                /\ user.id = db.teachers[i][1]
                /\ user.username = last.username
          \/ \E i \in Hits(db.students, last.username, last.password) :
                /\ user.role = "student"
                /\ user.id = db.students[i][1]
                /\ user.username = last.username
    /\ (LoginReturned /\ last.result = InvalidCredentials) =>
          /\ ~Carries(db.admin, last.username, last.password)
          /\ Hits(db.teachers, last.username, last.password) = {}
          /\ Hits(db.students, last.username, last.password) = {}

\* a teacher found under the second key of the collection
C2_Witness ==
    /\ LoginSucceeded
    /\ user.role = "teacher"
    /\ Len(db.teachers) >= 2
    /\ user.id = db.teachers[2][1]

NoRecordCarries(username, password) ==
    /\ ~Carries(db.admin, username, password)
    /\ Hits(db.teachers, username, password) = {}
    /\ Hits(db.students, username, password) = {}

\* some record carries the username
UsernameKnown(username) ==
    \/ db.admin # null /\ db.admin.username = username
    \/ \E i \in 1..Len(db.teachers) :
          db.teachers[i][2] # null /\ db.teachers[i][2].username = username
    \/ \E i \in 1..Len(db.students) :
          db.students[i][2] # null /\ db.students[i][2].username = username

\* C3: when no record of the three collections carries the pair, login never
\* succeeds and, unless a fault occurred, returns 'Invalid username or
\* password', the same value for an unknown username and for a known
\* username with another password.
C3_NoMatchInvalid ==
    (LoginReturned /\ NoRecordCarries(last.username, last.password)) =>
        /\ last.result # Success
        /\ last.fault = "none" => last.result = "Invalid username or password"

\* login answered "invalid" to a known username with a wrong password
C3_Witness ==
    /\ LoginReturned
    /\ NoRecordCarries(last.username, last.password)
    /\ UsernameKnown(last.username)
    /\ last.result = InvalidCredentials

\* login answered "invalid" to an unknown username
C3_WitnessUnknown ==
    /\ LoginReturned
    /\ ~UsernameKnown(last.username)
    /\ last.result = InvalidCredentials

\* the step is the return of a login call
LoginReturns ==
    /\ \E c \in DOMAIN calls : calls[c].pc # "idle" /\ calls'[c].pc = "idle"
    /\ last'.op = "login"

\* C4: a login that returns a failure writes nothing: the session and the
\* slot are what they were before the step that returns.
C4_FailedLoginWritesNothing ==
    [][(LoginReturns /\ last'.result # Success) =>
          (user' = user /\ slot' = slot)]_vars

HasHole(collection) ==
    \E i \in 1..Len(collection) : collection[i][2] = null

FirstHit(collection, username, password) ==
    CHOOSE i \in Hits(collection, username, password) :
        \A j \in Hits(collection, username, password) : i <= j

\* the input differs from the pair the records carry, by case or whitespace
Inexact(username, password) == username # "u1" \/ password \notin Passwords

\* C18: a login that succeeds as a teacher (as a student) installs the
\* session of the first record of the teacher (student) collection, in
\* enumeration order, that carries the pair; and a pair that differs from
\* every record's by letter case or surrounding whitespace only matches no
\* record: such a login never succeeds.
C18_FirstExactMatch ==
    LoginReturned =>
        /\ (last.result = Success /\ user.role = "teacher") =>
              /\ Hits(db.teachers, last.username, last.password) # {}
              /\ LET i == FirstHit(db.teachers, last.username, last.password)
                 IN  user = TeacherUser(db.teachers[i][1], db.teachers[i][2])
        /\ (last.result = Success /\ user.role = "student") =>
              /\ Hits(db.students, last.username, last.password) # {}
              /\ LET i == FirstHit(db.students, last.username, last.password)
                 IN  user = StudentUser(db.students[i][1], db.students[i][2])
        /\ Inexact(last.username, last.password) => last.result # Success

\* two students carry the pair and the session is that of the first
C18_Witness ==
    /\ LoginSucceeded
    /\ user.role = "student"
    /\ Cardinality(Hits(db.students, last.username, last.password)) >= 2
    /\ user.id = db.students[1][1]

\* login answered "invalid" to a username in another letter case, and to a
\* password followed by a space, of a pair that records carry
C18_WitnessCase ==
    /\ LoginReturned
    /\ last.username = "U1" /\ last.password = "p1"
    /\ Hits(db.teachers, "u1", "p1") # {}
    /\ last.result = InvalidCredentials

----------------------------------------------------------------------------
(* Claims about restoreSession, logout and updateUser *)

\* the object has the fields interface User requires (lines 260-268)
WellFormedSession(o) ==
    /\ {"id", "username", "name", "role"} \subseteq DOMAIN o
    /\ o.role \in {"admin", "teacher", "student"}

\* the slot is present and its text parses as a well-formed Session
HoldsSession(text) ==
    /\ text.kind = "object"
    /\ WellFormedSession(JSONparse(text))

\* C6: restoreSession installs the slot's content only when the slot is
\* present and parses as a well-formed Session; an absent or malformed slot
\* leaves the session empty and raises no error.
C6_RestoreTreatsMalformedAsAbsent ==
    last.op = "restoreSession" =>
        /\ last.result # Threw
        /\ IF HoldsSession(slot) THEN user = JSONparse(slot) ELSE user = null

\* a.f = b.f for every field f
SameFields(a, b) ==
    \A i \in 1..Len(Fields) : Get(a, Fields[i]) = Get(b, Fields[i])

\* C7: after a successful login the slot holds a text that restoreSession
\* accepts and parses to a Session equal, field for field, to the one login
\* installed; and restoreSession in a fresh process installs what the text
\* of the slot parses to.
C7_RoundTrip ==
    /\ LoginSucceeded =>
          /\ SavedUserTruthy(slot)
          /\ JSONparse(slot) \notin {SyntaxError, null}
          /\ SameFields(JSONparse(slot), user)
    /\ (last.op = "restoreSession" /\ phase = "ready" /\ SavedUserTruthy(slot)) =>
          user = JSONparse(slot)

\* a fresh process restored the session a student's login had stored, whose
\* className was undefined and is not part of the text
C7_Witness ==
    /\ last.op = "restoreSession"
    /\ HoldsSession(slot)
    /\ user.role = "student"
    /\ user.passwordChanged = "true"
    /\ "className" \notin DOMAIN user
    /\ \E i \in 1..Len(db.students) :
          /\ db.students[i][2] # null
          /\ user.id = db.students[i][1]
          /\ SameFields(user, StudentUser(db.students[i][1], db.students[i][2]))

\* C8: logout leaves the session empty and the slot absent and returns
\* normally; a logout from that state, and a logout right after a logout,
\* change nothing.
C8_LogoutIdempotent ==
    [][Logout =>
          /\ user' = null
          /\ slot' = absent
          /\ last'.result = Void
          /\ (user = null /\ slot = absent) =>
                UNCHANGED <<db, user, isLoading, slot, phase, calls, held>>
          /\ last.op \in {"logout", "logout again"} =>
                UNCHANGED <<db, user, isLoading, slot, phase, calls, held>>]_vars

\* logout was called twice in a row
C8_Witness ==
    /\ last.op = "logout again"
    /\ user = null
    /\ slot = absent

\* C9: updateUser(partial) on an active session overrides the fields partial
\* names, leaves every other field of the session as it was, and writes the
\* merged session to the slot.
C9_UpdateOverridesNamedFields ==
    [][\A data \in Partials :
          (UpdateUser(data) /\ user # null /\ WellFormedSession(user)
             /\ last'.result = Void) =>
             /\ \A i \in 1..Len(Fields) :
                   Get(user', Fields[i]) =
                      IF Fields[i] \in DOMAIN data
                      THEN data[Fields[i]] ELSE Get(user, Fields[i])
             /\ slot'.kind = "object"
             /\ SameFields(JSONparse(slot'), user')]_vars

\* C10: updateUser called while no session is active changes neither the
\* session nor the slot.
C10_UpdateWithoutSessionIsNoOp ==
    [][\A data \in Partials :
          (UpdateUser(data) /\ user = null) =>
             (user' = null /\ slot' = slot)]_vars

----------------------------------------------------------------------------
(* Claims about the scope filters of the dashboard *)

\* the k-th smallest element of a set of positions
Nth(positions, k) ==
    CHOOSE i \in positions : Cardinality({ j \in positions : j < i }) = k - 1

\* `shown` lists exactly the entries of `data` at `positions`, in the order
\* of `data`, each with its key as id and its own fields
ShowsInOrder(shown, data, positions) ==
    /\ Len(shown) = Cardinality(positions)
    /\ \A k \in 1..Len(shown) :
          LET i == Nth(positions, k)
          IN  /\ shown[k].id = data[i][1]
              /\ \A f \in DOMAIN data[i][2] : shown[k][f] = data[i][2][f]

\* C11: for a supervisor session a delivered classes snapshot is shown as
\* exactly its classes whose id is in assignedClassIds, and a delivered
\* students snapshot as exactly its students whose classId is in
\* assignedClassIds, both in snapshot order; whether the class of a student
\* is among the classes plays no part.
C11_ScopedClassesAndStudents ==
    /\ (seen.collection = "classes" /\ seen.ids # undefined) =>
          ShowsInOrder(classes, seen.data,
              { i \in 1..Len(seen.data) :
                  seen.data[i][1] \in AssignedIds(seen.ids) })
    /\ (seen.collection = "students" /\ seen.ids # undefined) =>
          ShowsInOrder(students, seen.data,
              { i \in 1..Len(seen.data) :
                  /\ seen.data[i][2] # null
                  /\ seen.data[i][2].classId \in AssignedIds(seen.ids) })

\* a supervisor of c1 was delivered a student of c1 and one of c2: the first
\* is shown, the second is not, and no class c1 is among the classes
C11_Witness ==
    /\ seen.collection = "students"
    /\ seen.ids = "[c1]"
    /\ Len(seen.data) = 2
    /\ seen.data[1][2] # null /\ seen.data[1][2].classId = "c2"
    /\ seen.data[2][2] # null /\ seen.data[2][2].classId = "c1"
    /\ Len(students) = 1 /\ students[1].id = seen.data[2][1]
    /\ classes = <<>>

\* a supervisor of both classes was delivered them in the order c2, c1
C11_WitnessOrder ==
    /\ seen.collection = "classes"
    /\ seen.ids = "[c1,c2]"
    /\ Len(classes) = 2 /\ classes[1].id = "c2" /\ classes[2].id = "c1"

\* the announcement has no classId: none, or the empty string
Unset(a) == "classId" \notin DOMAIN a \/ a.classId = ""

\* the positions of `data` whose announcement the session may see
VisiblePositions(data, ids) ==
    { i \in 1..Len(data) :
        \/ Unset(data[i][2])
        \/ data[i][2].classId \in AssignedIds(ids) }

\* C12: of a delivered announcements snapshot exactly the announcements
\* with no classId and those whose classId is in assignedClassIds are
\* visible, each once: without a session or without assignedClassIds only
\* the former, and never one of a class outside the assigned set.
C12_VisibleAnnouncements ==
    seen.collection = "announcements" =>
        LET visible == VisiblePositions(seen.data,
                          IF seen.ids = undefined THEN "[]" ELSE seen.ids)
        IN  /\ { announcements[k].id : k \in 1..Len(announcements) } =
                  { seen.data[i][1] : i \in visible }
            /\ Len(announcements) = Cardinality(visible)

\* without a session a general announcement is visible and the one of class
\* c1 delivered with it is not
C12_Witness ==
    /\ seen.collection = "announcements"
    /\ user = null
    /\ Len(seen.data) = 2
    /\ "classId" \notin DOMAIN seen.data[1][2]
    /\ Get(seen.data[2][2], "classId") = "c1"
    /\ Len(announcements) = 1
    /\ announcements[1].id = seen.data[1][1]

\* the position in the snapshot of the announcement with this id
Position(data, id) == CHOOSE p \in 1..Len(data) : data[p][1] = id

\* C13: the visible announcements are in descending order of createdAt,
\* those of equal createdAt in their snapshot order, and they are the
\* filtered announcements, none dropped and none twice.
C13_NewestFirst ==
    seen.collection = "announcements" =>
        LET visible == VisiblePositions(seen.data,
                          IF seen.ids = undefined THEN "[]" ELSE seen.ids)
        IN  /\ \A i, j \in 1..Len(announcements) :
                  i < j =>
                     /\ GetTime(announcements[i].createdAt) >=
                           GetTime(announcements[j].createdAt)
                     /\ GetTime(announcements[i].createdAt) =
                           GetTime(announcements[j].createdAt) =>
                           Position(seen.data, announcements[i].id) <
                              Position(seen.data, announcements[j].id)
            /\ Len(announcements) = Cardinality(visible)
            /\ \A i \in visible :
                  \E k \in 1..Len(announcements) :
                     announcements[k] = WithId(seen.data[i])

\* delivered 2024-01-01, 2024-03-01, 2024-02-01 in that order, shown as
\* 03-01, 02-01, 01-01
C13_Witness ==
    /\ seen.collection = "announcements"
    /\ Len(seen.data) = 3
    /\ seen.data[1][2].createdAt = "2024-01-01"
    /\ seen.data[2][2].createdAt = "2024-03-01"
    /\ seen.data[3][2].createdAt = "2024-02-01"
    /\ Len(announcements) = 3
    /\ announcements[1].id = seen.data[2][1]
    /\ announcements[2].id = seen.data[3][1]
    /\ announcements[3].id = seen.data[1][1]

\* two announcements of one instant, written differently, behind a newer one
\* delivered after them: they keep their snapshot order
C13_WitnessTie ==
    /\ seen.collection = "announcements"
    /\ Len(seen.data) = 3
    /\ seen.data[1][2].createdAt = "2024-01-01T00:00:00.000Z"
    /\ seen.data[2][2].createdAt = "2024-01-01"
    /\ seen.data[3][2].createdAt = "2024-03-01"
    /\ Len(announcements) = 3
    /\ announcements[1].id = seen.data[3][1]
    /\ announcements[2].id = seen.data[1][1]
    /\ announcements[3].id = seen.data[2][1]

\* the live subscriptions to the collection
Live(collection) ==
    { i \in DOMAIN listeners : listeners[i].collection = collection }

\* C16: at any time at most one subscription per collection is live, each
\* one opened under the current session.assignedClassIds; a delivered
\* snapshot is filtered against the assignedClassIds the session had when
\* it was delivered; and an unmounted dashboard holds no subscription.
C16_SubscriptionsFollowScope ==
    /\ \A i \in 1..Len(Listened) : Cardinality(Live(Listened[i])) <= 1
    /\ \A i \in DOMAIN listeners : listeners[i].ids = AssignedClassIds(user)
    /\ ~mounted => listeners = <<>>
    /\ mounted => \A i \in 1..Len(Listened) : Live(Listened[i]) # {}
    /\ seen.collection = "classes" =>
          classes = FilteredClasses(seen.data, seen.ids)
    /\ seen.collection = "students" =>
          students = FilteredStudents(seen.data, seen.ids)
    /\ seen.collection = "announcements" =>
          announcements = FilteredAnnouncements(seen.data, seen.ids)

\* the scope changed from c1 to c2 while the dashboard was mounted: the
\* students shown were filtered under c1, and the classes delivered since
\* are filtered under c2
C16_Witness ==
    /\ mounted
    /\ AssignedClassIds(user) = "[c2]"
    /\ Len(students) = 1 /\ students[1].classId = "c1"
    /\ seen.collection = "classes"
    /\ seen.ids = "[c2]"
    /\ Len(classes) = 1 /\ classes[1].id = "c2"

----------------------------------------------------------------------------
(* Claims about the session over sequences of operations *)

NoLoginPending == \A c \in DOMAIN calls : calls[c].pc = "idle"

\* C20: once logout has been called the session stays empty and the slot
\* absent until a login issued after it succeeds: from the state logout
\* leaves, with no login pending, no step installs a session or writes the
\* slot (a login issued from there returns in a later step).
C20_LogoutIsFinal ==
    [][(last.op \in {"logout", "logout again"} /\ NoLoginPending) =>
          (user' = null /\ slot' = absent)]_vars

\* restoreSession has run and no login is waiting on a read
Quiescent == phase = "ready" /\ NoLoginPending

\* C19: whenever no operation is in progress the session and the slot
\* agree: the session is empty and the slot absent, or the slot holds the
\* serialization of exactly the current session.
C19_SessionAndSlotAgree ==
    Quiescent =>
        IF user = null THEN slot = absent ELSE slot = JSONstringify(user)

Authenticated == user # null

\* C14: the session becomes Authenticated only by a login that returns
\* success or by restoreSession reading a present slot, becomes
\* Unauthenticated only by logout or a restart, and a step of updateUser
\* never changes whether a session is installed.
C14_SessionTransitions ==
    [][/\ (~Authenticated /\ Authenticated') =>
             \/ LoginReturns /\ last'.result = Success
             \/ RestoreSession /\ SavedUserTruthy(slot)
       /\ (Authenticated /\ ~Authenticated') => (Logout \/ Restart)
       /\ \A data \in Partials :
             UpdateUser(data) => (Authenticated <=> Authenticated')]_vars

\* the field is populated: present with a value
Populated(o, f) == Get(o, f) \notin {undefined, "null", ""}

\* C17: in every state with an active session the role determines the
\* scope fields: a student session carries classId and className and no
\* assignedClassIds, a supervisor session carries assignedClassIds and
\* neither classId nor className, admin and teacher sessions carry none.
C17_RoleDeterminedFields ==
    (user # null /\ "role" \in DOMAIN user) =>
        CASE user.role = "student" ->
                /\ Populated(user, "classId") /\ Populated(user, "className")
                /\ ~Populated(user, "assignedClassIds")
          [] user.role = "supervisor" ->
                /\ Populated(user, "assignedClassIds")
                /\ ~Populated(user, "classId") /\ ~Populated(user, "className")
          [] OTHER ->
                /\ ~Populated(user, "classId") /\ ~Populated(user, "className")
                /\ ~Populated(user, "assignedClassIds")

\* C15: whatever the slot holds at process start, the step of
\* restoreSession ends with isLoading false; and isLoading, once false,
\* becomes true again only by a restart, which begins another process.
C15_LoadingEnds ==
    [][/\ RestoreSession => isLoading' = FALSE
       /\ (~isLoading /\ isLoading') => Restart]_vars

====
